---- MODULE Spec2Model ----
(***************************************************************************)
(* Model of translation_01.py: the text segmenter split_text_into_chunks   *)
(* and the per-segment translation loop of main().                         *)
(*                                                                         *)
(* A Python str is a sequence of one-character strings.  Python indices    *)
(* are 0-based; Sequences are 1-based, so text[k] in Python is text[k+1]   *)
(* here.  All offsets kept in variables (start, end, i) are the Python     *)
(* 0-based values.                                                         *)
(***************************************************************************)
EXTENDS Integers, Sequences, FiniteSets, TLC

VARIABLES
    input_text,         \* main: the text submitted (argument `text` of the splitter)
    chunk_size,         \* main: slider value (argument `chunk_size`)
    chunk_overlap,      \* main: slider value (argument `overlap`)
    pc,                 \* position of the program
    start,              \* split_text_into_chunks: local `start`
    chunks,             \* split_text_into_chunks: local `chunks`, then main's `chunks`
    visited,            \* history: the values `start` had at earlier loop heads
    i,                  \* main: loop index of `for i, chunk in enumerate(chunks)`
    translated_chunks,  \* main: local `translated_chunks`
    progress_bar,       \* main: last value given to progress_bar.progress, <<num, den>>
    calls,              \* history: the service calls made, in order
    errors_shown,       \* number of st.error messages shown by translate_chunk
    session_state       \* st.session_state: the stored run-level result

vars == <<input_text, chunk_size, chunk_overlap, pc, start, chunks, visited, i,
          translated_chunks, progress_bar, calls, errors_shown, session_state>>

splitVars == <<start, chunks, visited>>
runVars == <<i, translated_chunks, progress_bar, calls, errors_shown, session_state>>

(***************************************************************************)
(* Bounds                                                                  *)
(***************************************************************************)
MaxLen == 5          \* longest enumerated text over Chars
MaxSentenceLen == 6  \* longest enumerated text over SentenceChars
MaxPlainLen == 8     \* longest enumerated text over PlainChars
MaxSize == 7         \* largest enumerated chunk_size
MinSliderSize == 4   \* scaled-down minimum of the chunk-size slider
MaxChunks == 12      \* cap on the iterations explored of a loop that never ends
MaxSliderOverlap == 2  \* scaled-down maximum of the overlap slider

\* The characters of the enumerated texts: a letter, a space, two terminators.
Chars == {"a", " ", ".", "?"}

\* The characters of the longer enumerated texts: one terminator only.
SentenceChars == {"a", " ", "."}

\* The characters of the longest enumerated texts: words and spaces only.
PlainChars == {"a", " "}

TextsOver(alphabet, n) == UNION {[1..k -> alphabet] : k \in 0..n}

Texts ==
    TextsOver(Chars, MaxLen)
        \cup TextsOver(SentenceChars, MaxSentenceLen)
        \cup TextsOver(PlainChars, MaxPlainLen)

\* The documented example "Hello world. This is a test!".
HelloText ==
    <<"H","e","l","l","o"," ","w","o","r","l","d","."," ",
      "T","h","i","s"," ","i","s"," ","a"," ","t","e","s","t","!">>

(***************************************************************************)
(* Python string primitives                                                *)
(***************************************************************************)
Min(a, b) == IF a < b THEN a ELSE b
Max(a, b) == IF a > b THEN a ELSE b

\* Python's normalisation of one slice index against a length.
ClampIndex(k, n) == IF k < 0 THEN Max(k + n, 0) ELSE Min(k, n)

\* s[lo:hi]
Slice(s, lo, hi) ==
    LET a == ClampIndex(lo, Len(s))
        b == ClampIndex(hi, Len(s))
    IN  IF a < b THEN [k \in 1..(b - a) |-> s[a + k]] ELSE <<>>

\* s[lo:]
SliceFrom(s, lo) ==
    LET a == ClampIndex(lo, Len(s))
    IN  [k \in 1..(Len(s) - a) |-> s[a + k]]

\* s.rfind(c): the largest 0-based index of c in s, or -1.
RFind(s, c) ==
    LET hits == {k \in 1..Len(s) : s[k] = c}
    IN  IF hits = {} THEN -1
        ELSE (CHOOSE k \in hits : \A m \in hits : m <= k) - 1

Whitespace == {" "}

\* s.strip()
Strip(s) ==
    LET keep == {k \in 1..Len(s) : s[k] \notin Whitespace}
    IN  IF keep = {} THEN <<>>
        ELSE LET lo == CHOOSE k \in keep : \A m \in keep : k <= m
                 hi == CHOOSE k \in keep : \A m \in keep : m <= k
             IN  [k \in 1..(hi - lo + 1) |-> s[lo + k - 1]]

\* Join as it would be with the separator forgotten: "".join(parts).
RECURSIVE JoinNoSeparator(_)
JoinNoSeparator(parts) ==
    IF parts = <<>> THEN <<>>
    ELSE parts[1] \o JoinNoSeparator(Tail(parts))

\* " ".join(parts)
RECURSIVE Join(_)
Join(parts) ==
    IF parts = <<>> THEN <<>>
    ELSE IF Len(parts) = 1 THEN parts[1]
    ELSE parts[1] \o <<" ">> \o Join(Tail(parts))

(***************************************************************************)
(* split_text_into_chunks                                                  *)
(***************************************************************************)
Terminators == <<".", "!", "?">>

\* max(chunk.rfind('.'), chunk.rfind('!'), chunk.rfind('?'))
LastSentence(chunk) ==
    Max(Max(RFind(chunk, Terminators[1]), RFind(chunk, Terminators[2])),
        RFind(chunk, Terminators[3]))

\* chunk.rfind(' ')
LastSpace(chunk) == RFind(chunk, " ")

\* `p > size * 0.7` and `p > size * 0.5`, the thresholds in tenths.  The
\* float products are exact for every size below 700, so the comparison is
\* the integer one.
SentenceTenths == 7
SpaceTenths == 5
Exceeds(p, size, tenths) == 10 * p > tenths * size

\* CutEnd as it would be with the two searches in the other order: the last
\* space wins over the last sentence terminator.
CutEndSpaceFirst(text, size, st) ==
    LET chunk == Slice(text, st, st + size)
        last_sentence == LastSentence(chunk)
        last_space == LastSpace(chunk)
    IN  IF Exceeds(last_space, size, SpaceTenths)
        THEN st + last_space
        ELSE IF Exceeds(last_sentence, size, SentenceTenths)
             THEN st + last_sentence + 1
             ELSE st + size

\* CutEnd as it would be with the word-boundary threshold forgotten: any
\* space found in the window is cut at.
CutEndAnySpace(text, size, st) ==
    LET chunk == Slice(text, st, st + size)
        last_sentence == LastSentence(chunk)
        last_space == LastSpace(chunk)
    IN  IF Exceeds(last_sentence, size, SentenceTenths)
        THEN st + last_sentence + 1
        ELSE IF last_space # -1
             THEN st + last_space
             ELSE st + size

\* The value of `end` when the chunk is appended (lines 59-80), for a
\* window that is not the final one.
CutEnd(text, size, st) ==
    LET chunk == Slice(text, st, st + size)
        last_sentence == LastSentence(chunk)
        last_space == LastSpace(chunk)
    IN  IF Exceeds(last_sentence, size, SentenceTenths)
        THEN st + last_sentence + 1
        ELSE IF Exceeds(last_space, size, SpaceTenths)
             THEN st + last_space
             ELSE st + size

\* The segment appended for a window that is not the final one (line 82).
CutChunk(text, size, st) == Slice(text, st, CutEnd(text, size, st))

\* NextStart as it would be when off by one.
NextStartSkipsOne(end, ov) == end - ov + 1

\* `start = end - overlap` (line 83).
NextStart(end, ov) == end - ov

\* Lines 52-53: a text no longer than chunk_size is returned whole.
SplitEarly ==
    /\ pc = "split"
    /\ Len(input_text) <= chunk_size
    /\ chunks' = <<input_text>>
    /\ pc' = "returned"
    /\ UNCHANGED <<input_text, chunk_size, chunk_overlap, start, visited>>
    /\ UNCHANGED runVars

\* Lines 55-56: a longer text enters the loop.
SplitEnter ==
    /\ pc = "split"
    /\ Len(input_text) > chunk_size
    /\ chunks' = <<>>
    /\ start' = 0
    /\ visited' = {}
    /\ pc' = "loop"
    /\ UNCHANGED <<input_text, chunk_size, chunk_overlap>>
    /\ UNCHANGED runVars

\* Lines 58-85: one evaluation of the loop condition and, when it holds,
\* one run of the loop body.  The body either appends the rest of the text
\* and breaks (lines 61-63) or cuts, appends and advances (lines 65-83).
SplitLoop ==
    /\ pc = "loop"
    /\ Len(chunks) < MaxChunks
    /\ IF start >= Len(input_text)
       THEN /\ pc' = "returned"
            /\ UNCHANGED splitVars
       ELSE IF start + chunk_size >= Len(input_text)
       THEN /\ chunks' = Append(chunks, SliceFrom(input_text, start))
            /\ visited' = visited \cup {start}
            /\ pc' = "returned"
            /\ UNCHANGED start
       ELSE /\ chunks' = Append(chunks, CutChunk(input_text, chunk_size, start))
            /\ start' = NextStart(CutEnd(input_text, chunk_size, start), chunk_overlap)
            /\ visited' = visited \cup {start}
            /\ UNCHANGED pc
    /\ UNCHANGED <<input_text, chunk_size, chunk_overlap>>
    /\ UNCHANGED runVars

\* The state before anything ran: nothing split, nothing translated.
Idle ==
    /\ start = 0
    /\ chunks = <<>>
    /\ visited = {}
    /\ i = 0
    /\ translated_chunks = <<>>
    /\ progress_bar = <<0, 1>>
    /\ calls = <<>>
    /\ errors_shown = 0
    /\ session_state = [stored |-> FALSE, translation |-> <<>>, chunks_processed |-> 0]

\* Every configuration with chunk_size > 0 and 0 <= overlap < chunk_size.
Inputs ==
    /\ \/ /\ input_text \in Texts
          /\ chunk_size \in 1..MaxSize
          /\ chunk_overlap \in 0..(chunk_size - 1)
       \/ /\ input_text = HelloText
          /\ chunk_size = 15
          /\ chunk_overlap = 0

\* split_text_into_chunks called on its own.
InitSplit == Inputs /\ pc = "split" /\ Idle

SplitNext == SplitEarly \/ SplitEnter \/ SplitLoop

SplitSpec == InitSplit /\ [][SplitNext]_vars

(***************************************************************************)
(* translate_chunk                                                         *)
(***************************************************************************)
\* What the external service may answer: a text, or an exception `e`.
ServiceTexts == {<<"x">>, <<"y", "z">>}
ServiceErrors == {<<"e">>}
Outcomes ==
    [ok : {TRUE}, text : ServiceTexts] \cup [ok : {FALSE}, text : ServiceErrors]

\* f"[Échec de la traduction: {str(e)}]", the prefix abbreviated.
FailureMarker(e) == <<"[", "E", ":", " ">> \o e \o <<"]">>

\* TranslateChunk as it would be if the handler returned the bare message.
TranslateChunkNoMarker(outcome) == outcome.text

\* Lines 96-106: the value translate_chunk returns for an outcome of the call.
TranslateChunk(outcome) ==
    IF outcome.ok THEN outcome.text ELSE FailureMarker(outcome.text)

(***************************************************************************)
(* main: the handler of the "Traduire" button                              *)
(***************************************************************************)
\* ProgressValue as it would be with `i` for `i + 1`.
ProgressValueFromIndex(idx, total) == <<idx, total>>

\* Line 250: the fraction given to the progress bar, as <<num, den>>.
ProgressValue(idx, total) == <<idx + 1, total>>

\* Lines 219-232: the click with an input that is blank is answered by a
\* warning; otherwise the text is split.  (The context is taken non-blank
\* and the two languages distinct.)
Submit ==
    /\ pc = "clicked"
    /\ pc' = IF Strip(input_text) = <<>> THEN "warned" ELSE "split"
    /\ UNCHANGED <<input_text, chunk_size, chunk_overlap>>
    /\ UNCHANGED splitVars
    /\ UNCHANGED runVars

\* Lines 235-238: the progress bar is set to 0 and the result list emptied.
BeginRun ==
    /\ pc = "returned"
    /\ progress_bar' = <<0, 1>>
    /\ translated_chunks' = <<>>
    /\ i' = 0
    /\ pc' = "for"
    /\ UNCHANGED <<input_text, chunk_size, chunk_overlap, calls, errors_shown,
                   session_state>>
    /\ UNCHANGED splitVars

\* Lines 240-241: a segment whose stripped text is empty is passed over.
SkipBlank ==
    /\ pc = "for"
    /\ i < Len(chunks)
    /\ Strip(chunks[i + 1]) = <<>>
    /\ i' = i + 1
    /\ UNCHANGED <<input_text, chunk_size, chunk_overlap, pc, translated_chunks,
                   progress_bar, calls, errors_shown, session_state>>
    /\ UNCHANGED splitVars

\* Lines 241-251 with translate_chunk (lines 87-106): one service call for
\* the segment, its text or its failure marker appended, progress reported.
TranslateSegment(outcome) ==
    /\ pc = "for"
    /\ i < Len(chunks)
    /\ Strip(chunks[i + 1]) # <<>>
    /\ calls' = Append(calls, [index |-> i, sent |-> chunks[i + 1],
                               outcome |-> outcome])
    /\ errors_shown' = IF outcome.ok THEN errors_shown ELSE errors_shown + 1
    /\ translated_chunks' = Append(translated_chunks, TranslateChunk(outcome))
    /\ progress_bar' = ProgressValue(i, Len(chunks))
    /\ i' = i + 1
    /\ UNCHANGED <<input_text, chunk_size, chunk_overlap, pc, session_state>>
    /\ UNCHANGED splitVars

TranslateOk == \E outcome \in Outcomes : outcome.ok /\ TranslateSegment(outcome)

TranslateFail == \E outcome \in Outcomes : ~outcome.ok /\ TranslateSegment(outcome)

\* Lines 254-265: the results are joined and stored in the session state.
\* (translation_time and model_used are stored too; neither is modelled.)
Finalize ==
    /\ pc = "for"
    /\ i = Len(chunks)
    /\ session_state' = [stored |-> TRUE,
                         translation |-> Join(translated_chunks),
                         chunks_processed |-> Len(translated_chunks)]
    /\ pc' = "done"
    /\ UNCHANGED <<input_text, chunk_size, chunk_overlap, i, translated_chunks,
                   progress_bar, calls, errors_shown>>
    /\ UNCHANGED splitVars

\* Lines 142-156: what the two sliders let through (scaled down).
SliderInputs ==
    \/ /\ input_text \in Texts
       /\ chunk_size \in MinSliderSize..MaxSize
       /\ chunk_overlap \in 0..Min(MaxSliderOverlap, chunk_size \div 4)
    \/ /\ input_text = HelloText
       /\ chunk_size = 15
       /\ chunk_overlap = 0

Init == SliderInputs /\ pc = "clicked" /\ Idle

Next ==
    \/ Submit
    \/ SplitEarly
    \/ SplitEnter
    \/ SplitLoop
    \/ BeginRun
    \/ SkipBlank
    \/ TranslateOk
    \/ TranslateFail
    \/ Finalize

Spec == Init /\ [][Next]_vars

(***************************************************************************)
(* Helpers of the properties                                               *)
(***************************************************************************)
ValidConfig == chunk_size > 0 /\ 0 <= chunk_overlap /\ chunk_overlap < chunk_size
SliderConfig == chunk_size > 0 /\ 0 <= chunk_overlap /\ chunk_overlap <= chunk_size \div 4

\* The characters of s from 0-based offset a (inclusive) to b (exclusive),
\* for 0 <= a <= b <= Len(s).
Sub(s, a, b) == [k \in 1..(b - a) |-> s[a + k]]

\* The core of the k-th segment: the first whole, a later one without its
\* first `overlap` characters.
Core(k) ==
    IF k = 1 THEN chunks[k]
    ELSE IF Len(chunks[k]) <= chunk_overlap THEN <<>>
    ELSE Sub(chunks[k], chunk_overlap, Len(chunks[k]))

RECURSIVE ConcatCores(_)
ConcatCores(k) == IF k = 0 THEN <<>> ELSE ConcatCores(k - 1) \o Core(k)

\* The current window as the code reads it, and the offsets in it of the
\* sentence terminators.
Window == Slice(input_text, start, start + chunk_size)
TerminatorOffsets == {k - 1 : k \in {m \in 1..Len(Window) : Window[m] \in {".", "!", "?"}}}
LastTerminator == CHOOSE p \in TerminatorOffsets : \A q \in TerminatorOffsets : q <= p
NonFinalWindow == pc = "loop" /\ start < Len(input_text) /\ start + chunk_size < Len(input_text)
SentenceCase ==
    /\ NonFinalWindow
    /\ TerminatorOffsets # {}
    /\ 10 * LastTerminator > 7 * chunk_size

\* The 0-based indices below n of the segments that are not blank.
NonBlankBelow(n) == {k \in 0..(n - 1) : \E m \in 1..Len(chunks[k + 1]) : chunks[k + 1][m] # " "}

\* The text the k-th service call contributes.
ResultOf(k) ==
    IF calls[k].outcome.ok THEN calls[k].outcome.text
    ELSE <<"[", "E", ":", " ">> \o calls[k].outcome.text \o <<"]">>
Failures == {k \in 1..Len(calls) : ~calls[k].outcome.ok}
Successes == {k \in 1..Len(calls) : calls[k].outcome.ok}

\* The 0-based offset in the joined document at which the k-th result starts.
RECURSIVE OffsetOf(_)
OffsetOf(k) == IF k = 1 THEN 0 ELSE OffsetOf(k - 1) + Len(ResultOf(k - 1)) + 1

(***************************************************************************)
(* Properties                                                              *)
(***************************************************************************)

\* C1: for every text and every configuration with chunk_size > 0 and
\* 0 <= overlap < chunk_size the splitter terminates and returns a
\* sequence that is not empty when the text is not empty.  The loop is a
\* deterministic function of `start`, so it terminates exactly when no loop
\* head is reached with a value of `start` it had before.
C1_Terminates ==
    ValidConfig =>
        /\ pc = "loop" => start \notin visited
        /\ (pc = "returned" /\ input_text # <<>>) => chunks # <<>>

\* C2: for every valid configuration, the cores of the returned segments
\* (the first whole, each later one without its first `overlap` characters)
\* concatenated give the original text.
C2_Reconstructs ==
    (ValidConfig /\ pc = "returned") => ConcatCores(Len(chunks)) = input_text

\* C5 as stated: "Hello world. This is a test!" with size 15 and overlap 0
\* gives the two segments "Hello world. " and "This is a test!".
C5_TwoSegments ==
    (pc = "returned" /\ input_text = HelloText /\ chunk_size = 15 /\ chunk_overlap = 0)
        => chunks = << Sub(HelloText, 0, 13), Sub(HelloText, 13, 28) >>

\* C5 amended: the same input gives the three segments "Hello world.",
\* " This is a" and " test!".
C5_ThreeSegments ==
    (pc = "returned" /\ input_text = HelloText /\ chunk_size = 15 /\ chunk_overlap = 0)
        => chunks = << <<"H","e","l","l","o"," ","w","o","r","l","d",".">>,
                       <<" ","T","h","i","s"," ","i","s"," ","a">>,
                       <<" ","t","e","s","t","!">> >>

C5_Witness ==
    pc = "returned" /\ input_text = HelloText /\ chunk_size = 15 /\ chunk_overlap = 0

\* C8: in a window that is not the final one, when the last sentence
\* terminator of the window is at an offset p with p > 0.7 * chunk_size, the
\* segment appended is text[start : start+p+1]: the window up to and
\* including that terminator.
C8_SentenceCut ==
    [][SentenceCase =>
         chunks' = Append(chunks, Sub(Window, 0, LastTerminator + 1))]_vars

\* A sentence cut that is neither at the last space nor at the window edge.
C8_Witness ==
    /\ pc = "loop"
    /\ chunks # <<>>
    /\ \E st \in visited :
         LET w == Slice(input_text, st, st + chunk_size)
             p == Len(chunks[Len(chunks)]) - 1
         IN  /\ st >= 0
             /\ st + chunk_size < Len(input_text)
             /\ start = st + p + 1 - chunk_overlap
             /\ 10 * p > 7 * chunk_size
             /\ p + 1 < chunk_size
             /\ w[p + 1] \in {".", "!", "?"}
             /\ \E m \in (p + 2)..Len(w) : w[m] = " "

\* C9: for every non-empty text and valid configuration, every segment
\* appended has between 1 and chunk_size characters.
C9_Bounded ==
    (ValidConfig /\ input_text # <<>>) =>
        \A k \in 1..Len(chunks) : Len(chunks[k]) >= 1 /\ Len(chunks[k]) <= chunk_size

\* C10: with 0 <= overlap <= chunk_size \div 4, `start` strictly increases
\* on every iteration and stays in [0, len(text)); the number of segments
\* appended so far never exceeds `start`, so the loop ends; it is left only
\* by the final-segment branch, whose segment runs to the end of the text.
C10_SliderProgress ==
    /\ [](SliderConfig /\ pc = "loop" =>
            /\ 0 <= start /\ start < Len(input_text)
            /\ Len(chunks) <= start
            /\ start \notin visited
            /\ Len(chunks) < MaxChunks)
    /\ [][(SliderConfig /\ pc = "loop" /\ pc' = "loop") => start' > start]_vars
    /\ [][(SliderConfig /\ pc = "loop" /\ pc' = "returned") =>
            /\ Len(chunks') = Len(chunks) + 1
            /\ chunks'[Len(chunks')] = Sub(input_text, start, Len(input_text))]_vars

\* The loop was left after several iterations under a non-zero overlap.
C10_Witness ==
    /\ SliderConfig
    /\ chunk_overlap > 0
    /\ pc = "returned"
    /\ Len(chunks) >= 3

\* C3: whatever calls fail, each non-blank segment reached so far got
\* exactly one service call, in index order; a failed call contributes the
\* failure marker at its position and every other call its translation; the
\* loop never stops before the last segment and the run is finalized with
\* every segment attempted.
C3_FailureIsolated ==
    pc \in {"for", "done"} =>
        /\ i <= Len(chunks)
        /\ Len(calls) = Cardinality(NonBlankBelow(i))
        /\ \A k \in 1..Len(calls) :
             /\ calls[k].index \in NonBlankBelow(i)
             /\ calls[k].sent = chunks[calls[k].index + 1]
             /\ k > 1 => calls[k - 1].index < calls[k].index
        /\ Len(translated_chunks) = Len(calls)
        /\ \A k \in 1..Len(calls) : translated_chunks[k] = ResultOf(k)
        /\ pc = "for" => ENABLED Next
        /\ pc = "done" => i = Len(chunks) /\ session_state.stored

\* A finalized run in which a call failed and a later call succeeded.
C3_Witness ==
    /\ pc = "done"
    /\ \E k \in Failures : \E m \in Successes : k < m

\* C4: the final document is the results joined by one space in index
\* order: each result stands at its offset, one space stands between two
\* neighbours, nothing else is there, and blank segments add nothing.
C4_JoinedInOrder ==
    pc = "done" =>
        LET doc == session_state.translation
            n == Len(calls)
        IN  /\ n = Cardinality(NonBlankBelow(Len(chunks)))
            /\ n = 0 => doc = <<>>
            /\ n > 0 => Len(doc) = OffsetOf(n) + Len(ResultOf(n))
            /\ \A k \in 1..n :
                 /\ OffsetOf(k) + Len(ResultOf(k)) <= Len(doc)
                 /\ Sub(doc, OffsetOf(k), OffsetOf(k) + Len(ResultOf(k))) = ResultOf(k)
                 /\ k < n => doc[OffsetOf(k) + Len(ResultOf(k)) + 1] = " "

\* A finalized run of several results and a blank segment.
C4_Witness ==
    /\ pc = "done"
    /\ Len(calls) >= 2
    /\ Cardinality(NonBlankBelow(Len(chunks))) < Len(chunks)

\* C6: the stored run-level result tells how many segments succeeded and
\* how many failed: the stored count is the count of successes, so that the
\* failures are the rest.
C6_CountsTellFailures ==
    pc = "done" => session_state.chunks_processed = Cardinality(Successes)

\* C7: each report is (segments resolved so far) / (segments of the
\* splitter); the reported fraction never decreases and never exceeds 1.
C7_Progress ==
    /\ [](pc \in {"for", "done"} =>
            /\ progress_bar[1] <= progress_bar[2]
            /\ progress_bar[2] > 0)
    /\ [][(pc = "for" /\ progress_bar' # progress_bar) =>
            /\ progress_bar' = <<i', Len(chunks)>>
            /\ progress_bar'[1] * progress_bar[2] >= progress_bar[1] * progress_bar'[2]]_vars
    /\ [][(pc = "for" /\ Len(calls') > Len(calls)) => progress_bar' = <<i', Len(chunks)>>]_vars

\* A report made after a blank segment was passed over.
C7_Witness ==
    /\ pc = "for"
    /\ progress_bar[1] > Len(calls)
    /\ Len(calls) >= 1

====
